---- MODULE Spec2Model ----
EXTENDS Integers, Sequences, FiniteSets, TLC

(***************************************************************************)
(* pino-toolkit: configuration merge, stream construction, the logger      *)
(* singleton and the routing of one log call to the configured streams.    *)
(*                                                                         *)
(* A JavaScript object whose key order is never observed is a TLA+         *)
(* function whose DOMAIN is the set of keys present.  An object that the   *)
(* code iterates (levelFiles, a log context) is a sequence of              *)
(* [k |-> key, v |-> value] entries in insertion order.  A path is the     *)
(* sequence of its segments.                                               *)
(***************************************************************************)

VARIABLES
    nodeEnv,         \* process.env.NODE_ENV at module load
    loggerInstance,  \* the module's singleton (NoLogger when null)
    held,            \* a logger the caller holds (createLogger / child result)
    nextId,          \* number of loggers initLogger has constructed so far
    returned,        \* ids of the loggers getLogger(config) has returned to callers
    op,              \* the last exported function called
    arg,             \* its config argument (Empty when none or {})
    lvl,             \* its level argument ("" when none)
    input,           \* its (message, context) arguments (Empty when none)
    ret,             \* id of the logger it returned (0 when none)
    err,             \* the error it threw ("" when none)
    built,           \* the streams createStreams constructed during the call
    delivered,       \* the streams the call's record was written to, in order
    line             \* the record written: a sequence of <<key, value>>

vars == <<nodeEnv, loggerInstance, held, nextId, returned, op, arg, lvl, input,
          ret, err, built, delivered, line>>

----------------------------------------------------------------------------
(* Bounds *)

MaxLoggers == 2     \* initLogger constructions in one behaviour
MaxChindings == 4   \* binding entries on a logger the caller holds

----------------------------------------------------------------------------
(* JavaScript values *)

Empty == <<>>                         \* {} / [] / '' : no keys, no entries
UNDEF == "undefined"

Has(o, k) == k \in DOMAIN o

\* { ...a, ...b } for objects whose key order is not observed
Spread(a, b) ==
    [k \in (DOMAIN a) \cup (DOMAIN b) |-> IF k \in DOMAIN b THEN b[k] ELSE a[k]]

\* o.k when present, else the empty object (spreading undefined adds nothing)
Sub(o, k) == IF Has(o, k) THEN o[k] ELSE Empty

EntryIndex(o, k) ==
    IF \E i \in 1..Len(o) : o[i].k = k
    THEN CHOOSE i \in 1..Len(o) : o[i].k = k
    ELSE 0

\* target[k] = v on an ordered object: an existing key keeps its position
OSet(o, e) ==
    IF EntryIndex(o, e.k) = 0
    THEN Append(o, e)
    ELSE [o EXCEPT ![EntryIndex(o, e.k)] = e]

RECURSIVE OAssign(_, _)
OAssign(o, src) ==
    IF src = <<>> THEN o ELSE OAssign(OSet(o, Head(src)), Tail(src))

\* { ...a, ...b } for ordered objects (Object.entries order is observed)
OSpread(a, b) == OAssign(OAssign(<<>>, a), b)

----------------------------------------------------------------------------
(* Levels *)

LogLevels == <<"fatal", "error", "warn", "info", "debug", "trace">>
LogLevel == {LogLevels[i] : i \in 1..Len(LogLevels)}

\* pino.levels.values
LevelValue(l) ==
    CASE l = "trace" -> 10
      [] l = "debug" -> 20
      [] l = "info"  -> 30
      [] l = "warn"  -> 40
      [] l = "error" -> 50
      [] l = "fatal" -> 60

----------------------------------------------------------------------------
(* Paths (pathe) *)

DefaultDestination == <<"cwd", "logs", "app.log">>

LogFileName(l) ==
    CASE l = "fatal" -> "fatal.log"
      [] l = "error" -> "error.log"
      [] l = "warn"  -> "warn.log"
      [] l = "info"  -> "info.log"
      [] l = "debug" -> "debug.log"
      [] l = "trace" -> "trace.log"

dirname(p) == IF Len(p) <= 1 THEN <<".">> ELSE SubSeq(p, 1, Len(p) - 1)
join(dir, name) == IF dir = <<".">> THEN <<name>> ELSE Append(dir, name)

----------------------------------------------------------------------------
(* Configuration defaults *)

defaultRotation == [interval |-> "1d", size |-> "10M", maxFiles |-> 5]

\* destination: undefined (fatal, error) reads like an absent destination
defaultLevelFiles ==
    << [k |-> "fatal", v |-> [enabled |-> TRUE]],
       [k |-> "error", v |-> [enabled |-> TRUE]],
       [k |-> "warn",  v |-> [enabled |-> FALSE]],
       [k |-> "info",  v |-> [enabled |-> FALSE]],
       [k |-> "debug", v |-> [enabled |-> FALSE]],
       [k |-> "trace", v |-> [enabled |-> FALSE]] >>

defaultConfig ==
    [ level       |-> "info",
      prettyPrint |-> (nodeEnv # "production"),
      destination |-> DefaultDestination,
      rotation    |-> defaultRotation,
      levelFiles  |-> defaultLevelFiles ]

----------------------------------------------------------------------------
(* Stream construction.  A PinoDestination is [level, stream] and, for a   *)
(* level file, [level, stream, filter]; the stream is the transport's      *)
(* target and options, plus a name telling the transports apart.           *)

createPrettyStream(level) ==
    [ level  |-> level,
      stream |-> [name |-> "pretty", target |-> "pino-pretty"] ]

createRotationStream(config, level) ==
    LET mergedConfig ==
            Spread(Spread(defaultConfig, config),
                   [rotation |-> Spread(defaultConfig.rotation,
                                        Sub(config, "rotation"))])
        destination ==
            IF Has(config, "destination") THEN config.destination
            ELSE defaultConfig.destination
        dirPath == dirname(destination)
    IN  [ level  |-> level,
          stream |-> [ name      |-> "main",
                       target    |-> "pino-roll",
                       file      |-> destination,
                       frequency |-> mergedConfig.rotation.interval,
                       size      |-> mergedConfig.rotation.size,
                       maxFiles  |-> mergedConfig.rotation.maxFiles,
                       dirname   |-> dirPath ] ]

\* faulty variant: the caller's rotation is not merged into the level file's policy
createLevelStream_DefaultRotation(level, destination, rotation) ==
    [ level  |-> level,
      stream |-> [ name      |-> level,
                   target    |-> "pino-roll",
                   file      |-> destination,
                   frequency |-> defaultConfig.rotation.interval,
                   size      |-> defaultConfig.rotation.size,
                   maxFiles  |-> defaultConfig.rotation.maxFiles ],
      filter |-> level ]

createLevelStream(level, destination, rotation) ==
    LET mergedRotation == Spread(defaultConfig.rotation, rotation)
    IN  [ level  |-> level,
          stream |-> [ name      |-> level,
                       target    |-> "pino-roll",
                       file      |-> destination,
                       frequency |-> mergedRotation.interval,
                       size      |-> mergedRotation.size,
                       maxFiles  |-> mergedRotation.maxFiles ],
          filter |-> level ]

\* the body of the forEach over Object.entries(config.levelFiles)
LevelFileStream(config, entry) ==
    IF entry.v.enabled
    THEN LET baseDir ==
                 dirname(IF Has(config, "destination") THEN config.destination
                         ELSE defaultConfig.destination)
             destination ==
                 IF Has(entry.v, "destination") THEN entry.v.destination
                 ELSE join(baseDir, LogFileName(entry.k))
         IN  <<createLevelStream(entry.k, destination, Sub(config, "rotation"))>>
    ELSE <<>>

RECURSIVE LevelFileStreams(_, _)
LevelFileStreams(config, entries) ==
    IF entries = <<>> THEN <<>>
    ELSE LevelFileStream(config, Head(entries))
         \o LevelFileStreams(config, Tail(entries))

\* faulty variant: the threshold streams get the default level, not the configured one
createStreams_DefaultLevel(config) ==
    (IF Has(config, "prettyPrint") /\ config.prettyPrint
     THEN <<createPrettyStream(defaultConfig.level)>> ELSE <<>>)
    \o
    (IF Has(config, "destination") /\ config.destination # Empty
     THEN <<createRotationStream(config, defaultConfig.level)>> ELSE <<>>)
    \o
    (IF Has(config, "levelFiles")
     THEN LevelFileStreams(config, config.levelFiles) ELSE <<>>)

createStreams(config) ==
    LET level == IF Has(config, "level") THEN config.level
                 ELSE defaultConfig.level
    IN  (IF Has(config, "prettyPrint") /\ config.prettyPrint
         THEN <<createPrettyStream(level)>> ELSE <<>>)
        \o
        (IF Has(config, "destination") /\ config.destination # Empty
         THEN <<createRotationStream(config, level)>> ELSE <<>>)
        \o
        (IF Has(config, "levelFiles")
         THEN LevelFileStreams(config, config.levelFiles) ELSE <<>>)

----------------------------------------------------------------------------
(* pino, as this module uses it.  A logger is                              *)
(*   [id, level, chindings, streams, redact]                               *)
(* chindings are the base and child bindings in the order they are written *)
(* to every line; streams is the multistream's list.                       *)

NoLogger == [id |-> 0]

\* multistream.add: unshift the new entry, then a stable sort by level value
MultistreamAdd(streams, dest) ==
    LET d == [stream |-> dest.stream, level |-> LevelValue(dest.level)]
        lower(e) == e.level < d.level
        notLower(e) == ~(e.level < d.level)
    IN  SelectSeq(streams, lower) \o <<d>> \o SelectSeq(streams, notLower)

RECURSIVE AddAll(_, _)
AddAll(streams, dests) ==
    IF dests = <<>> THEN streams
    ELSE AddAll(MultistreamAdd(streams, Head(dests)), Tail(dests))

\* pino.multistream(streamsArray): reads level and stream of each entry;
\* it has no notion of an entry's filter
multistream(streamsArray) == AddAll(<<>>, streamsArray)

\* multistream.write: every stream whose level value is <= the record's,
\* stopping at the first one above it
RECURSIVE MultistreamWrite(_, _)
MultistreamWrite(streams, num) ==
    IF streams = <<>> THEN <<>>
    ELSE IF Head(streams).level <= num
         THEN <<Head(streams).stream>> \o MultistreamWrite(Tail(streams), num)
         ELSE <<>>

\* a top-level key named in redact.paths is written as the censor
Redact(redact, entry) ==
    IF Has(redact, "paths") /\ \E i \in 1..Len(redact.paths) : redact.paths[i] = entry.k
    THEN [k |-> entry.k, v |-> redact.censor]
    ELSE entry

RECURSIVE RedactAll(_, _)
RedactAll(redact, entries) ==
    IF entries = <<>> THEN <<>>
    ELSE <<Redact(redact, Head(entries))>> \o RedactAll(redact, Tail(entries))

\* the JSON line of one record: level label, bindings, the merging object's
\* keys, msg.  Keys are written as they come, repeated keys included.
AsJson(logger, level, obj, msg) ==
    <<[k |-> "level", v |-> level]>>
    \o logger.chindings
    \o RedactAll(logger.redact, obj)
    \o (IF msg = UNDEF THEN <<>> ELSE <<[k |-> "msg", v |-> msg]>>)

\* logger[level](obj, msg): the record the call writes, <<>> when the
\* logger's level silences the method
LogLine(logger, level, obj, msg) ==
    IF LevelValue(level) >= LevelValue(logger.level)
    THEN AsJson(logger, level, obj, msg)
    ELSE <<>>

\* logger[level](obj, msg): the streams the record is written to
LogWrite(logger, level) ==
    IF LevelValue(level) >= LevelValue(logger.level)
    THEN MultistreamWrite(logger.streams, LevelValue(level))
    ELSE <<>>

\* logger.child(bindings): a new logger on the same streams
PinoChild(logger, bindings) ==
    [logger EXCEPT !.id = 0,
                   !.chindings = @ \o RedactAll(logger.redact, bindings)]

----------------------------------------------------------------------------
(* initLogger *)

\* faulty variant: levelFiles is replaced wholesale instead of merged per key
MergeConfig_ShallowLevelFiles(config) ==
    Spread(Spread(defaultConfig, config),
           [ rotation |-> Spread(defaultConfig.rotation, Sub(config, "rotation")) ])

MergeConfig(config) ==
    Spread(Spread(defaultConfig, config),
           [ rotation   |-> Spread(defaultConfig.rotation, Sub(config, "rotation")),
             levelFiles |-> OSpread(defaultConfig.levelFiles,
                                    Sub(config, "levelFiles")) ])

\* faulty variant: the base context is not handed to pino
PinoOptions_NoBase(mergedConfig) ==
    [ level  |-> mergedConfig.level,
      base   |-> Empty,
      redact |-> IF Has(mergedConfig, "redaction")
                 THEN [ paths  |-> mergedConfig.redaction.paths,
                        censor |-> IF Has(mergedConfig.redaction, "censor")
                                   THEN mergedConfig.redaction.censor
                                   ELSE "[REDACTED]" ]
                 ELSE Empty ]

PinoOptions(mergedConfig) ==
    [ level  |-> mergedConfig.level,
      base   |-> Sub(mergedConfig, "baseContext"),
      redact |-> IF Has(mergedConfig, "redaction")
                 THEN [ paths  |-> mergedConfig.redaction.paths,
                        censor |-> IF Has(mergedConfig.redaction, "censor")
                                   THEN mergedConfig.redaction.censor
                                   ELSE "[REDACTED]" ]
                 ELSE Empty ]

\* pino(options, stream) throws for a level it does not know
PinoError(options) ==
    IF options.level \in LogLevel THEN ""
    ELSE "default level must be included in custom levels object"

\* the logger pino(options, pino.multistream(streams)) returns
Pino(options, streams, id) ==
    [ id        |-> id,
      level     |-> options.level,
      chindings |-> RedactAll(options.redact, options.base),
      streams   |-> streams,
      redact    |-> options.redact ]

\* initLogger(config): the streams are created while the arguments of
\* pino(...) are evaluated, before pino can throw
initLogger(config, id) ==
    LET mergedConfig == MergeConfig(config)
        options == PinoOptions(mergedConfig)
        streams == createStreams(mergedConfig)
    IN  [ built  |-> streams,
          err    |-> PinoError(options),
          logger |-> IF PinoError(options) = ""
                     THEN Pino(options, multistream(streams), id)
                     ELSE NoLogger ]

----------------------------------------------------------------------------
(* Inputs *)

CustomDestination == <<"var", "log", "svc.log">>
ErrorDestination == <<"var", "alerts", "errors.log">>

\* LoggerConfig.levelFiles values a caller passes, keys in the caller's order
LevelFilesInputs ==
    { << [k |-> "error", v |-> [enabled |-> TRUE]],
         [k |-> "warn",  v |-> [enabled |-> TRUE]] >>,
      << [k |-> "trace", v |-> [enabled |-> TRUE]],
         [k |-> "fatal", v |-> [enabled |-> FALSE]],
         [k |-> "debug", v |-> [enabled |-> TRUE]] >>,
      << [k |-> "info",  v |-> [enabled |-> TRUE]],
         [k |-> "error", v |-> [enabled |-> TRUE, destination |-> ErrorDestination]],
         [k |-> "fatal", v |-> [enabled |-> TRUE]] >> }

\* LoggerConfig.rotation values: every subset of the three subkeys
RotationInputs ==
    { r @@ q @@ m : r \in {Empty, [interval |-> "12h"]},
                    q \in {Empty, [size |-> "50M"]},
                    m \in {Empty, [maxFiles |-> 10], [maxFiles |-> 0]} }

RedactionInputs ==
    { [paths |-> <<>>],
      [paths |-> <<"password">>],
      [paths |-> <<"password", "b">>, censor |-> "***"] }

BaseContext == << [k |-> "a", v |-> "4"], [k |-> "c", v |-> "5"] >>

\* configurations that vary what decides the routing
RoutingConfigs ==
    { l @@ p @@ d @@ f :
        l \in {Empty} \cup {[level |-> x] : x \in LogLevel \cup {"verbose"}},
        p \in {Empty, [prettyPrint |-> TRUE], [prettyPrint |-> FALSE]},
        d \in {Empty, [destination |-> Empty], [destination |-> CustomDestination]},
        f \in {Empty} \cup {[levelFiles |-> x] : x \in LevelFilesInputs} }

\* configurations that vary the nested merges and the record's content
MergeConfigs ==
    { r @@ f :
        r \in {Empty} \cup {[rotation |-> y] : y \in RotationInputs},
        f \in {Empty} \cup {[levelFiles |-> y] : y \in LevelFilesInputs} }
    \cup
    { x @@ b :
        x \in {Empty} \cup {[redaction |-> y] : y \in RedactionInputs},
        b \in {Empty, [baseContext |-> BaseContext, level |-> "debug"]} }

AllConfigs == RoutingConfigs \cup MergeConfigs

\* the configurations the singleton is asked for
RegistryConfigs ==
    { Empty,
      [ level       |-> "debug",
        prettyPrint |-> TRUE,
        destination |-> CustomDestination,
        levelFiles  |-> << [k |-> "error", v |-> [enabled |-> TRUE]],
                           [k |-> "warn",  v |-> [enabled |-> TRUE]] >>,
        redaction   |-> [paths |-> <<"password">>, censor |-> "[REDACTED]"],
        baseContext |-> BaseContext ],
      [ level       |-> "error",
        prettyPrint |-> FALSE,
        rotation    |-> [maxFiles |-> 0],
        redaction   |-> [paths |-> <<>>],
        levelFiles  |-> << [k |-> "debug", v |-> [enabled |-> TRUE]],
                           [k |-> "fatal", v |-> [enabled |-> FALSE]] >> ],
      [ level |-> "verbose" ] }

\* (message, context) arguments of the exported log functions; an omitted
\* context is the empty object, as context || {} makes it
StringMessage(text) == [type |-> "string", text |-> text]
ObjectMessage(fields) == [type |-> "object", fields |-> fields]

LogCalls ==
    { [message |-> StringMessage("hi"),
       context |-> << [k |-> "a", v |-> "1"] >>],
      [message |-> StringMessage("started"), context |-> Empty],
      [message |-> ObjectMessage(<< [k |-> "a", v |-> "7"],
                                    [k |-> "password", v |-> "hunter2"] >>),
       context |-> << [k |-> "b", v |-> "8"], [k |-> "a", v |-> "1"] >>] }

\* (message, context) arguments used on the singleton
RegistryCalls ==
    { [message |-> StringMessage("hi"),
       context |-> << [k |-> "a", v |-> "1"] >>],
      [message |-> ObjectMessage(<< [k |-> "a", v |-> "7"],
                                    [k |-> "password", v |-> "hunter2"] >>),
       context |-> << [k |-> "b", v |-> "8"], [k |-> "a", v |-> "1"] >>] }

RegistryBindings == { << [k |-> "component", v |-> "user-service"] >> }

Bindings ==
    { << [k |-> "a", v |-> "2"], [k |-> "b", v |-> "3"] >>,
      << [k |-> "b", v |-> "6"] >> }

\* the merging object and the msg a log function hands to logger[level]
CallObject(call) ==
    IF call.message.type = "string" THEN call.context
    ELSE OSpread(call.message.fields, call.context)

CallMsg(call) ==
    IF call.message.type = "string" THEN call.message.text ELSE UNDEF

----------------------------------------------------------------------------
(* The exported functions *)

\* faulty variant: a config argument re-initialises an existing singleton
GetOrInit_Reconfigure(config) ==
    IF loggerInstance # NoLogger /\ config = Empty
    THEN [built |-> <<>>, err |-> "", logger |-> loggerInstance]
    ELSE initLogger(config, nextId + 1)

\* what getLogger(config) finds or constructs: [built, err, logger]
GetOrInit(config) ==
    IF loggerInstance # NoLogger
    THEN [built |-> <<>>, err |-> "", logger |-> loggerInstance]
    ELSE initLogger(config, nextId + 1)

\* the singleton after a call that went through getLogger
Stored(r) == IF r.err = "" THEN r.logger ELSE loggerInstance

Constructs(r) == loggerInstance = NoLogger /\ r.err = ""

CanInit == loggerInstance # NoLogger \/ nextId < MaxLoggers

getLogger(config) ==
    LET r == GetOrInit(config)
    IN  /\ CanInit
        /\ loggerInstance' = Stored(r)
        /\ nextId' = IF Constructs(r) THEN nextId + 1 ELSE nextId
        /\ returned' = IF r.err = "" THEN returned \cup {r.logger.id} ELSE returned
        /\ op' = "getLogger"
        /\ arg' = config
        /\ lvl' = ""
        /\ input' = Empty
        /\ ret' = r.logger.id
        /\ err' = r.err
        /\ built' = r.built
        /\ delivered' = <<>>
        /\ line' = <<>>
        /\ UNCHANGED <<nodeEnv, held>>

\* the function createLogFunction(level) returns, and log(level, ...):
\* both take the singleton from getLogger() and call logger[level]
LogThroughSingleton(level, call) ==
    LET r == GetOrInit(Empty)
    IN  /\ CanInit
        /\ loggerInstance' = Stored(r)
        /\ nextId' = IF Constructs(r) THEN nextId + 1 ELSE nextId
        /\ op' = "log"
        /\ arg' = Empty
        /\ lvl' = level
        /\ input' = call
        /\ ret' = 0
        /\ err' = r.err
        /\ built' = r.built
        /\ delivered' = LogWrite(r.logger, level)
        /\ line' = LogLine(r.logger, level, CallObject(call), CallMsg(call))
        /\ UNCHANGED <<nodeEnv, held, returned>>

createLogFunction(level, call) == LogThroughSingleton(level, call)

log(level, call) == LogThroughSingleton(level, call)

\* logger.level = level on the singleton: the multistream is not touched
SetLoggerLevel(logger, level) == [logger EXCEPT !.level = level]

setLevel(level) ==
    LET r == GetOrInit(Empty)
    IN  /\ CanInit
        /\ loggerInstance' = SetLoggerLevel(r.logger, level)
        /\ nextId' = IF Constructs(r) THEN nextId + 1 ELSE nextId
        /\ op' = "setLevel"
        /\ arg' = Empty
        /\ lvl' = level
        /\ input' = Empty
        /\ ret' = 0
        /\ err' = r.err
        /\ built' = r.built
        /\ delivered' = <<>>
        /\ line' = <<>>
        /\ UNCHANGED <<nodeEnv, held, returned>>

child(bindings) ==
    LET r == GetOrInit(Empty)
    IN  /\ CanInit
        /\ loggerInstance' = Stored(r)
        /\ held' = PinoChild(r.logger, bindings)
        /\ nextId' = IF Constructs(r) THEN nextId + 1 ELSE nextId
        /\ op' = "child"
        /\ arg' = Empty
        /\ lvl' = ""
        /\ input' = Empty
        /\ ret' = 0
        /\ err' = r.err
        /\ built' = r.built
        /\ delivered' = <<>>
        /\ line' = <<>>
        /\ UNCHANGED <<nodeEnv, returned>>

\* faulty variant: the reset leaves the singleton in place
ResetInstance_Keep(instance) == instance

ResetInstance(instance) == NoLogger

resetLogger ==
    /\ loggerInstance' = ResetInstance(loggerInstance)
    /\ op' = "resetLogger"
    /\ arg' = Empty
    /\ lvl' = ""
    /\ input' = Empty
    /\ ret' = 0
    /\ err' = ""
    /\ built' = <<>>
    /\ delivered' = <<>>
    /\ line' = <<>>
    /\ UNCHANGED <<nodeEnv, held, nextId, returned>>

\* createLogger(config) for the configuration drawn at the start
createLogger ==
    LET r == initLogger(arg, nextId + 1)
    IN  /\ op = ""
        /\ held' = r.logger
        /\ nextId' = IF r.err = "" THEN nextId + 1 ELSE nextId
        /\ op' = "createLogger"
        /\ ret' = r.logger.id
        /\ err' = r.err
        /\ built' = r.built
        /\ UNCHANGED <<nodeEnv, loggerInstance, returned, arg, lvl, input, delivered, line>>

----------------------------------------------------------------------------
(* Calls on a logger the caller holds *)

heldLog(level, call) ==
    /\ held # NoLogger
    /\ op' = "held.log"
    /\ lvl' = level
    /\ input' = call
    /\ ret' = 0
    /\ err' = ""
    /\ built' = <<>>
    /\ delivered' = LogWrite(held, level)
    /\ line' = LogLine(held, level, CallObject(call), CallMsg(call))
    /\ UNCHANGED <<nodeEnv, loggerInstance, held, nextId, returned, arg>>

heldChild(bindings) ==
    /\ held # NoLogger
    /\ Len(held.chindings) + Len(bindings) <= MaxChindings
    /\ held' = PinoChild(held, bindings)
    /\ op' = "held.child"
    /\ lvl' = ""
    /\ input' = Empty
    /\ ret' = 0
    /\ err' = ""
    /\ built' = <<>>
    /\ delivered' = <<>>
    /\ line' = <<>>
    /\ UNCHANGED <<nodeEnv, loggerInstance, nextId, returned, arg>>

----------------------------------------------------------------------------
(* Specifications *)

Quiet ==
    /\ loggerInstance = NoLogger
    /\ held = NoLogger
    /\ nextId = 0
    /\ returned = {}
    /\ op = ""
    /\ lvl = ""
    /\ input = Empty
    /\ ret = 0
    /\ err = ""
    /\ built = <<>>
    /\ delivered = <<>>
    /\ line = <<>>

\* the module with its singleton
Init ==
    /\ nodeEnv \in {"production", "development"}
    /\ arg = Empty
    /\ Quiet

Next ==
    \/ \E config \in RegistryConfigs : getLogger(config)
    \/ \E level \in LogLevel, call \in RegistryCalls : createLogFunction(level, call)
    \/ \E level \in LogLevel, call \in RegistryCalls : log(level, call)
    \/ \E level \in LogLevel : setLevel(level)
    \/ \E bindings \in RegistryBindings : child(bindings)
    \/ resetLogger

Spec == Init /\ [][Next]_vars

\* one logger from createLogger(config), config drawn from AllConfigs, and
\* the calls made on it
InitCreate ==
    /\ nodeEnv \in {"production", "development"}
    /\ arg \in AllConfigs
    /\ Quiet

NextCreate ==
    \/ createLogger
    \/ \E level \in LogLevel, call \in LogCalls : heldLog(level, call)
    \/ \E bindings \in Bindings : heldChild(bindings)

SpecCreate == InitCreate /\ [][NextCreate]_vars

----------------------------------------------------------------------------
(* What the documentation promises, stated from a call's arguments alone *)

\* fatal > error > warn > info > debug > trace
Rank(l) == CHOOSE i \in 1..Len(LogLevels) : LogLevels[i] = l
AtLeastAsSevere(l1, l2) == Rank(l1) <= Rank(l2)

ResolvedLevel(config) == IF Has(config, "level") THEN config.level ELSE "info"

ExpectPretty(config) ==
    IF Has(config, "prettyPrint") THEN config.prettyPrint
    ELSE nodeEnv # "production"

ExpectMain(config) ==
    IF Has(config, "destination") THEN config.destination # Empty ELSE TRUE

UserLevelFile(config, l) ==
    Has(config, "levelFiles") /\ EntryIndex(config.levelFiles, l) # 0

ExpectLevelFile(config, l) ==
    IF UserLevelFile(config, l)
    THEN config.levelFiles[EntryIndex(config.levelFiles, l)].v.enabled
    ELSE l \in {"fatal", "error"}

ExpectRotation(config) ==
    LET given(key) == Has(config, "rotation") /\ Has(config.rotation, key)
    IN  [ interval |-> IF given("interval") THEN config.rotation.interval ELSE "1d",
          size     |-> IF given("size") THEN config.rotation.size ELSE "10M",
          maxFiles |-> IF given("maxFiles") THEN config.rotation.maxFiles ELSE 5 ]

ExpectBase(config) ==
    IF Has(config, "baseContext") THEN config.baseContext ELSE <<>>

ExpectSinks(config) ==
    (IF ExpectPretty(config) THEN <<"pretty">> ELSE <<>>)
    \o (IF ExpectMain(config) THEN <<"main">> ELSE <<>>)
    \o LET enabled(l) == ExpectLevelFile(config, l) IN SelectSeq(LogLevels, enabled)

ExpectDestination(config) ==
    IF Has(config, "destination") THEN config.destination
    ELSE <<"cwd", "logs", "app.log">>

\* <directory of the main destination>/<level>.log unless the entry names a path
ExpectLevelFilePath(config, l) ==
    IF UserLevelFile(config, l)
       /\ Has(config.levelFiles[EntryIndex(config.levelFiles, l)].v, "destination")
    THEN config.levelFiles[EntryIndex(config.levelFiles, l)].v.destination
    ELSE join(dirname(ExpectDestination(config)), LogFileName(l))

InvalidConfig(config) ==
    \/ Has(config, "level") /\ config.level \notin LogLevel
    \/ /\ Has(config, "rotation")
       /\ Has(config.rotation, "maxFiles")
       /\ config.rotation.maxFiles <= 0
    \/ Has(config, "redaction") /\ config.redaction.paths = <<>>

Names(dests) == [i \in 1..Len(dests) |-> dests[i].stream.name]
NameSet(dests) == {dests[i].stream.name : i \in 1..Len(dests)}
DeliveredTo(name) == \E i \in 1..Len(delivered) : delivered[i].name = name
HasStream(logger, name) ==
    \E i \in 1..Len(logger.streams) : logger.streams[i].stream.name = name

\* what a reader of the line gets: JSON.parse keeps the last of repeated keys
LastIndexOf(entries, key) ==
    CHOOSE i \in 1..Len(entries) :
        /\ entries[i].k = key
        /\ \A j \in (i + 1)..Len(entries) : entries[j].k # key

Keys(entries) == {entries[i].k : i \in 1..Len(entries)}

JSONParse(entries) ==
    [key \in Keys(entries) |-> entries[LastIndexOf(entries, key)].v]

ValueOf(entries, key) == entries[LastIndexOf(entries, key)].v

----------------------------------------------------------------------------
(* C1 *)

\* C1: on a logger built at resolved level L2, with no setLevel, an event at
\* level L1 reaches the pretty sink and the main file sink, when configured,
\* if and only if L1 is at least as severe as L2.
C1_ThresholdSinks ==
    op = "held.log" =>
        /\ DeliveredTo("pretty") <=>
               (ExpectPretty(arg) /\ AtLeastAsSevere(lvl, ResolvedLevel(arg)))
        /\ DeliveredTo("main") <=>
               (ExpectMain(arg) /\ AtLeastAsSevere(lvl, ResolvedLevel(arg)))

C1_Witness ==
    /\ op = "held.log"
    /\ Has(arg, "level") /\ arg.level = "warn"
    /\ lvl = "warn"
    /\ DeliveredTo("pretty")
    /\ DeliveredTo("main")

----------------------------------------------------------------------------
(* C2 *)

\* C2: an event at level L1 reaches the level file of an enabled level L3 if
\* and only if L1 = L3.
C2_ExactLevelFiles ==
    op = "held.log" =>
        \A l3 \in LogLevel :
            ExpectLevelFile(arg, l3) => (DeliveredTo(l3) <=> lvl = l3)

----------------------------------------------------------------------------
(* C3 *)

\* C3: while a singleton exists and resetLogger is not called, every call
\* leaves the same instance with the same bindings and streams in place, and
\* getLogger(config) returns it, builds nothing and changes nothing of it;
\* a log function, setLevel or child call that finds no singleton builds it
\* from the defaults.
C3_SameInstance ==
    [][ /\ (loggerInstance # NoLogger /\ op' # "resetLogger") =>
               /\ loggerInstance'.id = loggerInstance.id
               /\ loggerInstance'.streams = loggerInstance.streams
               /\ loggerInstance'.chindings = loggerInstance.chindings
               /\ loggerInstance'.redact = loggerInstance.redact
               /\ op' = "getLogger" =>
                      /\ ret' = loggerInstance.id
                      /\ err' = ""
                      /\ built' = <<>>
                      /\ loggerInstance' = loggerInstance
        /\ (loggerInstance = NoLogger /\ op' \in {"log", "setLevel", "child"}) =>
               /\ loggerInstance'.id = nextId + 1
               /\ loggerInstance'.chindings = <<>>
               /\ Names(built') = ExpectSinks(Empty)
               /\ NameSet(loggerInstance'.streams) = NameSet(built')
               /\ op' # "setLevel" => loggerInstance'.level = "info" ]_vars

C3_Witness ==
    /\ op = "getLogger"
    /\ Has(arg, "baseContext")
    /\ ret = loggerInstance.id
    /\ loggerInstance # NoLogger
    /\ loggerInstance.chindings = <<>>
    /\ loggerInstance.level = "trace"

----------------------------------------------------------------------------
(* C4 *)

\* C4: after resetLogger the registry is empty, and a getLogger(c) that
\* follows it stores and returns a logger no earlier call returned, whose
\* level, base context and sinks are those of c merged with the defaults.
C4_FreshAfterReset ==
    /\ [](op = "resetLogger" => loggerInstance = NoLogger)
    /\ [][ (op = "resetLogger" /\ op' = "getLogger" /\ err' = "") =>
               /\ loggerInstance' # NoLogger
               /\ ret' = loggerInstance'.id
               /\ loggerInstance'.id \notin returned
               /\ loggerInstance'.id > nextId
               /\ loggerInstance'.level = ResolvedLevel(arg')
               /\ loggerInstance'.chindings = ExpectBase(arg')
               /\ NameSet(loggerInstance'.streams) = NameSet(built')
               /\ Names(built') = ExpectSinks(arg')
               /\ \A i \in 1..Len(built') :
                      built'[i].stream.target = "pino-roll" =>
                          /\ built'[i].stream.frequency = ExpectRotation(arg').interval
                          /\ built'[i].stream.size = ExpectRotation(arg').size
                          /\ built'[i].stream.maxFiles = ExpectRotation(arg').maxFiles
               /\ \A i \in 1..Len(built') :
                      built'[i].stream.name = "main" =>
                          built'[i].stream.file = ExpectDestination(arg')
               /\ \A i \in 1..Len(built') :
                      Has(built'[i], "filter") =>
                          built'[i].stream.file =
                              ExpectLevelFilePath(arg', built'[i].filter)
               /\ Has(loggerInstance'.redact, "paths") <=> Has(arg', "redaction")
               /\ Has(arg', "redaction") =>
                      loggerInstance'.redact.paths = arg'.redaction.paths ]_vars

C4_Witness ==
    /\ op = "getLogger"
    /\ arg = Empty
    /\ ret = 2
    /\ loggerInstance.id = 2
    /\ 1 \in returned
    /\ loggerInstance.chindings = <<>>
    /\ ~HasStream(loggerInstance, "warn")

----------------------------------------------------------------------------
(* C5 *)

\* C5: the first event logged after setLevel(newLevel) reaches the pretty and
\* main sinks of the singleton if and only if its level is at least as severe
\* as newLevel.
C5_SetLevelIsThreshold ==
    [][ (op = "setLevel" /\ op' = "log") =>
            \A name \in {"pretty", "main"} :
                HasStream(loggerInstance, name) =>
                    ((\E i \in 1..Len(delivered') : delivered'[i].name = name)
                         <=> AtLeastAsSevere(lvl', lvl)) ]_vars

----------------------------------------------------------------------------
(* C6 *)

\* C6: after setLevel, an event at level L still reaches the enabled level
\* file of L and no other level file, and the streams are the ones built at
\* construction.
C6_SetLevelLeavesLevelFiles ==
    [][ (op = "setLevel" /\ op' = "log") =>
            /\ loggerInstance'.streams = loggerInstance.streams
            /\ \A l3 \in LogLevel :
                   HasStream(loggerInstance, l3) =>
                       ((\E i \in 1..Len(delivered') : delivered'[i].name = l3)
                            <=> lvl' = l3) ]_vars

----------------------------------------------------------------------------
(* C7 *)

\* C7: createStreams returns the pretty sink (if enabled), then the main
\* file sink (if a destination is set), then one sink per enabled level file
\* in fatal, error, warn, info, debug, trace order, whatever the order and
\* subset of levels in the caller's levelFiles.
C7_SinkOrder ==
    op = "createLogger" => Names(built) = ExpectSinks(arg)

C7_Witness ==
    /\ op = "createLogger"
    /\ Has(arg, "levelFiles")
    /\ Len(arg.levelFiles) = 3
    /\ arg.levelFiles[1].k = "trace"
    /\ Names(built) = <<"pretty", "main", "error", "debug", "trace">>

----------------------------------------------------------------------------
(* C8 *)

CallerObject(call) ==
    IF call.message.type = "string" THEN call.context
    ELSE call.message.fields \o call.context

Redacted(config) ==
    IF Has(config, "redaction")
    THEN {config.redaction.paths[i] : i \in 1..Len(config.redaction.paths)}
    ELSE {}

\* the bindings the children added to the held logger, outermost first
BoundContext == SubSeq(held.chindings, Len(ExpectBase(arg)) + 1, Len(held.chindings))

PrecedenceValue(key) ==
    IF key \in Keys(CallerObject(input)) THEN ValueOf(CallerObject(input), key)
    ELSE IF key \in Keys(BoundContext) THEN ValueOf(BoundContext, key)
    ELSE ValueOf(ExpectBase(arg), key)

\* C8: the record read back from a written line has every key of the caller's
\* object, the child bindings and the base context; on collision the caller's
\* value wins over a child's, an inner child's over its parent's, and a
\* child's over the base context's (keys that are redacted aside).
C8_ContextPrecedence ==
    (op = "held.log" /\ line # <<>>) =>
        LET record == JSONParse(line)
            keys == (Keys(CallerObject(input)) \cup Keys(BoundContext)
                         \cup Keys(ExpectBase(arg)))
        IN  /\ DOMAIN record \ {"level", "msg"} = keys
            /\ \A key \in keys \ Redacted(arg) : record[key] = PrecedenceValue(key)

C8_Witness ==
    /\ op = "held.log"
    /\ line # <<>>
    /\ ExpectBase(arg) = BaseContext
    /\ BoundContext = << [k |-> "a", v |-> "2"], [k |-> "b", v |-> "3"] >>
    /\ input.context = << [k |-> "a", v |-> "1"] >>
    /\ input.message = StringMessage("hi")
    /\ JSONParse(line) =
           [level |-> lvl, a |-> "1", b |-> "3", c |-> "5", msg |-> "hi"]

----------------------------------------------------------------------------
(* C9 *)

\* C9: getLogger(config) with an unknown level, a maxFiles that is not
\* positive or an empty redaction.paths, called when there is no singleton,
\* fails with InvalidConfiguration, constructs no stream and stores nothing.
C9_InvalidConfigurationRejected ==
    [][ (loggerInstance = NoLogger /\ op' = "getLogger" /\ InvalidConfig(arg')) =>
            /\ err' = "InvalidConfiguration"
            /\ built' = <<>>
            /\ loggerInstance' = NoLogger ]_vars

----------------------------------------------------------------------------
(* C10 *)

\* C10: every file sink (the main file and each level file) is given the
\* caller's value for each rotation subkey the caller supplied and the
\* default (interval "1d", size "10M", maxFiles 5) for each one omitted.
C10_RotationMerge ==
    op = "createLogger" =>
        \A i \in 1..Len(built) :
            built[i].stream.target = "pino-roll" =>
                /\ built[i].stream.frequency = ExpectRotation(arg).interval
                /\ built[i].stream.size = ExpectRotation(arg).size
                /\ built[i].stream.maxFiles = ExpectRotation(arg).maxFiles

C10_Witness ==
    /\ op = "createLogger"
    /\ Has(arg, "rotation")
    /\ arg.rotation = [size |-> "50M"]
    /\ \E i \in 1..Len(built) :
           /\ built[i].stream.name = "main"
           /\ built[i].stream.frequency = "1d"
           /\ built[i].stream.size = "50M"
           /\ built[i].stream.maxFiles = 5
    /\ \E i \in 1..Len(built) :
           /\ built[i].stream.name = "error"
           /\ built[i].stream.frequency = "1d"
           /\ built[i].stream.size = "50M"
           /\ built[i].stream.maxFiles = 5

====
